---- MODULE Spec2Model ----
(***************************************************************************)
(* Model of landuse_v1/handlers/nuts.py: the stateless NUTSHandler, which  *)
(* resolves a shapefile path from its arguments, reads the file into a     *)
(* table (GeoDataFrame) and answers one query per call.                    *)
(*                                                                         *)
(* Python exceptions are the strings "FileNotFoundError", "ValueError",    *)
(* "KeyError"; "none" is a normal return.  The specification's NotFound-   *)
(* Error is FileNotFoundError/KeyError and its InvalidInputError is        *)
(* ValueError.  A table cell is <<>> when missing (None/NaN) and <<x>>     *)
(* when it holds x; a float is an exact fraction <<num, den>> in lowest    *)
(* terms, so floating-point rounding is not modelled.                      *)
(***************************************************************************)
EXTENDS Integers, Sequences, FiniteSets, TLC

\* disk: the packaged shapefiles, path -> table; handler: the attributes of the
\* NUTSHandler instance; call, result: the last call made and its outcome;
\* raised: whether some call so far has raised (history only).
VARIABLES disk, handler, call, result, raised
vars == <<disk, handler, call, result, raised>>

\* ------------------------------------------------------------ values ----
None == <<>>
NaN == <<>>
Some(x) == <<x>>
Range(s) == {s[i] : i \in DOMAIN s}
EmptyDict == [k \in {} |-> None]
NoTable == [columns |-> <<>>, rows |-> <<>>]

\* ------------------------------------------------------ bounds ----------
MaxFiles == 1
MaxRows == 3
MaxCols == 3

\* ------------------------------------------------ Python built-ins -------
\* `suffix in s` in the place of s.endswith(suffix)
contains(s, suffix) ==
    \E i \in 1..(Len(s) - Len(suffix) + 1) : SubSeq(s, i, i + Len(suffix) - 1) = suffix
\* str.endswith(suffix)
endswith(s, suffix) ==
    /\ Len(s) >= Len(suffix)
    /\ SubSeq(s, Len(s) - Len(suffix) + 1, Len(s)) = suffix

\* str.replace(old, new) for a one-character old
RECURSIVE replace(_, _, _)
replace(s, old, new) ==
    IF Len(s) = 0 THEN ""
    ELSE (IF SubSeq(s, 1, 1) = old THEN new ELSE SubSeq(s, 1, 1))
             \o replace(SubSeq(s, 2, Len(s)), old, new)

\* f"{n}" for an integer n
format(n) == ToString(n)

\* pathlib's a / b
joinpath(a, b) == a \o "/" \o b

\* Path.exists() and gpd.read_file() against the packaged files
exists(d, p) == p \in DOMAIN d
read_file(d, p) == d[p]

\* `column in gdf.columns`
in_columns(c, gdf) == c \in Range(gdf.columns)

RECURSIVE gcd(_, _)
gcd(a, b) == IF b = 0 THEN a ELSE gcd(b, a % b)
Float(num, den) == LET g == gcd(num, den) IN <<num \div g, den \div g>>

RECURSIVE SumCells(_)
SumCells(s) == IF s = <<>> THEN 0 ELSE Head(s)[1] + SumCells(Tail(s))

\* pandas Series.mean(): missing values are skipped; the mean of nothing is NaN
series_mean_noskip(s) ==
    IF Len(s) = 0 THEN NaN
    ELSE Float(SumCells(SelectSeq(s, LAMBDA v : v # NaN)), Len(s))
series_mean(s) ==
    LET xs == SelectSeq(s, LAMBDA v : v # NaN)
    IN  IF Len(xs) = 0 THEN NaN ELSE Float(SumCells(xs), Len(xs))

\* pandas elementwise ==: a missing cell equals nothing
cell_eq(cell, x) == cell # None /\ cell[1] = x

\* ------------------------------------------------ outcome of a call ----
\* exc: the exception raised ("none": normal return); value: the value
\* returned; steps: the steps of the method reached, in order; path: the
\* shapefile path resolved; gdf: the table read; title: the title set on the
\* figure; self: the handler's attributes when the call ends.
Raise(o, e, step) == [o EXCEPT !.exc = e, !.steps = Append(@, step)]
Return(o, v, step) == [o EXCEPT !.value = v, !.steps = Append(@, step)]

\* ------------------------------------------------ internal helpers ------
package_root == "landuse_v1"
data_root == joinpath(joinpath(package_root, "Data"), "Yearly")

nuts_folder_name(country_code, file_name, nuts_level, year) ==
    country_code \o "_" \o file_name \o "_NUTS" \o format(nuts_level)
        \o "_" \o format(year)

\* the crop name interpolated as given
crop_folder_name_as_given(crop_name, nuts_level, year) ==
    "DE_landuse_" \o crop_name \o "_NUTS" \o format(nuts_level) \o "_" \o format(year)
crop_folder_name(crop_name, nuts_level, year) ==
    LET crop_name_clean == replace(crop_name, " ", "_")
    IN  "DE_landuse_" \o crop_name_clean \o "_NUTS" \o format(nuts_level)
            \o "_" \o format(year)

shp_path(folder_name) ==
    joinpath(joinpath(data_root, folder_name), folder_name \o ".shp")

\* the existence check left out: a missing file fails in the parser
read_shp_unchecked(self, d, shp_file) ==
    IF ~exists(d, shp_file)
    THEN [exc |-> "DataSourceError", value |-> None, steps |-> <<"read_file">>,
          path |-> shp_file, gdf |-> NoTable, title |-> "", self |-> self]
    ELSE [exc |-> "none", value |-> None, steps |-> <<"read_file">>,
          path |-> shp_file, gdf |-> read_file(d, shp_file), title |-> "", self |-> self]
\* the tail shared by _read_nuts and _read_crop: existence check, then read
read_shp(self, d, shp_file) ==
    IF ~exists(d, shp_file)
    THEN [exc |-> "FileNotFoundError", value |-> None, steps |-> <<"exists">>,
          path |-> shp_file, gdf |-> NoTable, title |-> "", self |-> self]
    ELSE [exc |-> "none", value |-> None, steps |-> <<"exists", "read_file">>,
          path |-> shp_file, gdf |-> read_file(d, shp_file), title |-> "", self |-> self]

\* the table kept on the handler and reused by later calls
_read_nuts_cached(self, d, country_code, file_name, nuts_level, year) ==
    LET o == read_shp(self, d, shp_path(nuts_folder_name(country_code, file_name, nuts_level, year)))
    IN  IF \E e \in self : e[1] = "gdf"
        THEN [o EXCEPT !.exc = "none", !.steps = <<"cached">>,
                       !.gdf = (CHOOSE e \in self : e[1] = "gdf")[2]]
        ELSE IF o.exc = "none" THEN [o EXCEPT !.self = {<<"gdf", o.gdf>>}]
        ELSE o
_read_nuts(self, d, country_code, file_name, nuts_level, year) ==
    read_shp(self, d, shp_path(nuts_folder_name(country_code, file_name, nuts_level, year)))

_read_crop(self, d, crop_name, nuts_level, year) ==
    read_shp(self, d, shp_path(crop_folder_name(crop_name, nuts_level, year)))

\* [c for c in gdf.columns if c.endswith("_mean")]
mean_cols(gdf) == SelectSeq(gdf.columns, LAMBDA c : endswith(c, "_mean"))

\* fig, ax = plt.subplots(); gdf.plot(column=...); ax.set_title; plt.show().
\* GeoDataFrame.plot reads gdf[column], a KeyError when the column is absent.
render(o, column, title) ==
    LET started == [o EXCEPT !.steps = Append(@, "subplots")]
    IN  IF ~in_columns(column, o.gdf)
        THEN Raise(started, "KeyError", "plot")
        ELSE Return([started EXCEPT !.steps = Append(@, "plot"), !.title = title], None, "show")

\* f"{country_code} NUTS{nuts_level} - {mean_column} ({year})"
plot_mean_title(country_code, nuts_level, mean_column, year) ==
    country_code \o " NUTS" \o format(nuts_level) \o " - " \o mean_column
        \o " (" \o format(year) \o ")"

\* f"{crop_name} NUTS{nuts_level} ({year}) - {column}"
plot_crop_title(crop_name, nuts_level, year, column) ==
    crop_name \o " NUTS" \o format(nuts_level) \o " (" \o format(year) \o ") - " \o column

\* ------------------------------------------------ NUTS functions --------
mean_columns(self, d, country_code, file_name, nuts_level, year) ==
    LET o == _read_nuts(self, d, country_code, file_name, nuts_level, year)
    IN  IF o.exc # "none" THEN o
        ELSE Return(o, mean_cols(o.gdf), "mean_cols")

plot_mean(self, d, country_code, file_name, nuts_level, year, mean_column) ==
    LET o == _read_nuts(self, d, country_code, file_name, nuts_level, year)
    IN  IF o.exc # "none" THEN o
        ELSE IF mean_column = None
        THEN LET cols == mean_cols(o.gdf)
                 o1 == [o EXCEPT !.steps = Append(@, "mean_cols")]
             IN  IF cols = <<>> THEN Raise(o1, "ValueError", "no_mean_column")
                 ELSE render(o1, cols[1], plot_mean_title(country_code, nuts_level, cols[1], year))
        ELSE render(o, mean_column[1],
                    plot_mean_title(country_code, nuts_level, mean_column[1], year))

\* the last matching row in the place of the first
district_lookup_last(o, nuts_id, column) ==
    IF ~in_columns("NUTS_ID", o.gdf) THEN Raise(o, "KeyError", "id_lookup")
    ELSE LET district == SelectSeq(o.gdf.rows, LAMBDA r : cell_eq(r["NUTS_ID"], nuts_id))
             o1 == [o EXCEPT !.steps = Append(@, "id_lookup")]
         IN  IF district = <<>> THEN Raise(o1, "KeyError", "district_empty")
             ELSE IF ~in_columns(column, o.gdf) THEN Raise(o1, "KeyError", "iloc")
             ELSE Return(o1, district[Len(district)][column], "iloc")
\* district = gdf[gdf["NUTS_ID"] == nuts_id]; district.iloc[0][mean_column]
district_lookup(o, nuts_id, column) ==
    IF ~in_columns("NUTS_ID", o.gdf) THEN Raise(o, "KeyError", "id_lookup")
    ELSE LET district == SelectSeq(o.gdf.rows, LAMBDA r : cell_eq(r["NUTS_ID"], nuts_id))
             o1 == [o EXCEPT !.steps = Append(@, "id_lookup")]
         IN  IF district = <<>> THEN Raise(o1, "KeyError", "district_empty")
             ELSE IF ~in_columns(column, o.gdf) THEN Raise(o1, "KeyError", "iloc")
             ELSE Return(o1, district[1][column], "iloc")

\* the id looked up before the default column is chosen
get_district_value_lookup_first(self, d, nuts_id, country_code, file_name, nuts_level, year, mean_column) ==
    LET o == _read_nuts(self, d, country_code, file_name, nuts_level, year)
        o1 == [o EXCEPT !.steps = Append(@, "id_lookup")]
    IN  IF o.exc # "none" THEN o
        ELSE IF ~in_columns("NUTS_ID", o.gdf) THEN Raise(o, "KeyError", "id_lookup")
        ELSE IF SelectSeq(o.gdf.rows, LAMBDA r : cell_eq(r["NUTS_ID"], nuts_id)) = <<>>
        THEN Raise(o1, "KeyError", "district_empty")
        ELSE IF mean_column # None THEN district_lookup(o, nuts_id, mean_column[1])
        ELSE IF mean_cols(o.gdf) = <<>> THEN Raise(o1, "ValueError", "no_mean_column")
        ELSE district_lookup(o, nuts_id, mean_cols(o.gdf)[1])
get_district_value(self, d, nuts_id, country_code, file_name, nuts_level, year, mean_column) ==
    LET o == _read_nuts(self, d, country_code, file_name, nuts_level, year)
    IN  IF o.exc # "none" THEN o
        ELSE IF mean_column = None
        THEN LET cols == mean_cols(o.gdf)
                 o1 == [o EXCEPT !.steps = Append(@, "mean_cols")]
             IN  IF cols = <<>> THEN Raise(o1, "ValueError", "no_mean_column")
                 ELSE district_lookup(o1, nuts_id, cols[1])
        ELSE district_lookup(o, nuts_id, mean_column[1])

get_nuts_names(self, d, nuts_level, country_code, file_name, year) ==
    LET o == _read_nuts(self, d, country_code, file_name, nuts_level, year)
    IN  IF o.exc # "none" THEN o
        ELSE IF ~in_columns("NUTS_NAME", o.gdf) THEN Raise(o, "KeyError", "tolist")
        ELSE Return(o, [i \in DOMAIN o.gdf.rows |-> o.gdf.rows[i]["NUTS_NAME"]], "tolist")

\* ------------------------------------------------ crop functions --------
plot_crop_landuse(self, d, crop_name, nuts_level, year, column) ==
    LET o == _read_crop(self, d, crop_name, nuts_level, year)
    IN  IF o.exc # "none" THEN o
        ELSE IF ~in_columns(column, o.gdf) THEN Raise(o, "ValueError", "column_check")
        ELSE render([o EXCEPT !.steps = Append(@, "column_check")], column,
                    plot_crop_title(crop_name, nuts_level, year, column))

get_crop_mean(self, d, crop_name, nuts_level, year, column) ==
    LET o == _read_crop(self, d, crop_name, nuts_level, year)
    IN  IF o.exc # "none" THEN o
        ELSE IF ~in_columns(column, o.gdf) THEN Raise(o, "ValueError", "column_check")
        ELSE Return([o EXCEPT !.steps = Append(@, "column_check")],
                    series_mean([i \in DOMAIN o.gdf.rows |-> o.gdf.rows[i][column]]),
                    "mean")

\* gdf.groupby(by)[column]: the cells of column per label of by, in row
\* order; rows whose label is missing are dropped (dropna=True)
RECURSIVE groupby(_, _, _)
groupby(rows, by, column) ==
    IF rows = <<>> THEN EmptyDict
    ELSE LET g == groupby(SubSeq(rows, 1, Len(rows) - 1), by, column)
             r == rows[Len(rows)]
         IN  IF r[by] = None THEN g
             ELSE IF r[by][1] \in DOMAIN g
             THEN [g EXCEPT ![r[by][1]] = Append(@, r[column])]
             ELSE g @@ (r[by][1] :> <<r[column]>>)

get_crop_mean_per_district(self, d, crop_name, nuts_level, year, column) ==
    LET o == _read_crop(self, d, crop_name, nuts_level, year)
    IN  IF o.exc # "none" THEN o
        ELSE IF ~in_columns(column, o.gdf) THEN Raise(o, "ValueError", "column_check")
        ELSE IF ~in_columns("NUTS_NAME", o.gdf)
        THEN Raise([o EXCEPT !.steps = Append(@, "column_check")], "KeyError", "group_check")
        ELSE LET g == groupby(o.gdf.rows, "NUTS_NAME", column)
             IN  Return([o EXCEPT !.steps = @ \o <<"column_check", "group_check">>],
                        [k \in DOMAIN g |-> series_mean(g[k])], "groupby")

\* ------------------------------------------------ packaged files -------
PackagedShp(folder) == "landuse_v1/Data/Yearly/" \o folder \o "/" \o folder \o ".shp"
DefaultNutsShp == PackagedShp("DE_airtemp_NUTS2_2022")
DefaultCropShp == PackagedShp("DE_landuse_wheat_NUTS2_2022")
NutsFiles == {DefaultNutsShp, PackagedShp("FR_airtemp_NUTS3_2022")}
CropFiles == {DefaultCropShp, PackagedShp("DE_landuse_winter_soft_wheat_NUTS3_2022")}

Project(row, cols) == [c \in Range(cols) |-> row[c]]
Table(cols, rows) ==
    [columns |-> cols, rows |-> [i \in DOMAIN rows |-> Project(rows[i], cols)]]
SeqsUpTo(S, n) == UNION {[1..k -> S] : k \in 0..n}
NoDuplicates(s) == \A i, j \in DOMAIN s : s[i] = s[j] => i = j

\* three districts; the key DE1 occurs twice, one t_mean is missing
ExampleRows ==
    << [NUTS_ID |-> Some("DE1"), NUTS_NAME |-> Some("A"), t_mean |-> Some(10),
        v_mean |-> Some(10), means |-> Some(1), area |-> Some(7), geometry |-> Some("P1")],
       [NUTS_ID |-> Some("DE2"), NUTS_NAME |-> Some("B"), t_mean |-> NaN,
        v_mean |-> Some(5), means |-> Some(2), area |-> Some(8), geometry |-> Some("P2")],
       [NUTS_ID |-> Some("DE1"), NUTS_NAME |-> Some("A"), t_mean |-> Some(20),
        v_mean |-> Some(20), means |-> Some(3), area |-> Some(9), geometry |-> Some("P3")] >>
NutsTables ==
    {Table(cols, ExampleRows) : cols \in
        {<<"NUTS_ID", "NUTS_NAME", "t_mean", "v_mean", "geometry">>,
         <<"NUTS_ID", "NUTS_NAME", "means", "geometry">>,
         <<"NUTS_NAME", "v_mean", "geometry">>}}
CropTables ==
    {Table(cols, ExampleRows) : cols \in
        {<<"NUTS_ID", "NUTS_NAME", "v_mean", "geometry">>,
         <<"NUTS_ID", "v_mean", "geometry">>,
         <<"NUTS_ID", "NUTS_NAME", "area", "geometry">>,
         <<"NUTS_ID", "area", "geometry">>}}

\* tables over every duplicate-free column list of at most MaxCols names
ColumnNames == {"NUTS_ID", "v_mean", "t_mean", "mean", "_mean", "v_means", "v_mean_sd"}
ColumnRows ==
    << [c \in ColumnNames |-> IF c = "NUTS_ID" THEN Some("DE1") ELSE Some("cell of " \o c)],
       [c \in ColumnNames |-> IF c = "NUTS_ID" THEN Some("DE2") ELSE NaN] >>
ColumnTables ==
    {Table(cols, ColumnRows) : cols \in {s \in SeqsUpTo(ColumnNames, MaxCols) : NoDuplicates(s)}}

\* tables of at most MaxRows rows, keys repeated or missing
LookupTables ==
    {[columns |-> <<"NUTS_ID", "NUTS_NAME", "v_mean">>, rows |-> rows] : rows \in
        SeqsUpTo([NUTS_ID : {Some("DE1"), Some("DE2"), None}, NUTS_NAME : {Some("A")},
                  v_mean : {Some(1), Some(2), NaN}], MaxRows)}

\* tables of at most MaxRows rows, labels repeated or missing, values missing
GroupTables ==
    {[columns |-> <<"NUTS_NAME", "v_mean">>, rows |-> rows] : rows \in
        SeqsUpTo([NUTS_NAME : {Some("A"), Some("B"), None},
                  v_mean : {Some(5), Some(10), Some(20), NaN}], MaxRows)}

\* ------------------------------------------------ arguments ------------
CountryCodes == {"DE", "FR"}
FileNames == {"airtemp"}
NutsLevels == {2, 3}
Years == {2022}
NutsKeys ==
    [country_code : CountryCodes, file_name : FileNames, nuts_level : NutsLevels, year : Years]
MeanColumnArgs == {None, Some("v_mean"), Some("rain_mean")}
NutsIds == {"DE1", "DE9"}
CropNames == {"wheat", "winter soft wheat"}
CropKeys == [crop_name : CropNames, nuts_level : NutsLevels, year : Years]
ColumnArgs == {"v_mean", "yield"}

\* the defaults of the method signatures
DefaultNutsKey == [country_code |-> "DE", file_name |-> "airtemp", nuts_level |-> 2, year |-> 2022]
DefaultCropKey == [crop_name |-> "wheat", nuts_level |-> 2, year |-> 2022]

\* ------------------------------------------------ the handler ----------
\* __init__ sets no attribute
__init__ == {}

\* handler.<op>(**args)
Dispatch(self, d, c) ==
    LET a == c.args IN
    CASE c.op = "mean_columns" ->
            mean_columns(self, d, a.country_code, a.file_name, a.nuts_level, a.year)
      [] c.op = "plot_mean" ->
            plot_mean(self, d, a.country_code, a.file_name, a.nuts_level, a.year, a.mean_column)
      [] c.op = "get_district_value" ->
            get_district_value(self, d, a.nuts_id, a.country_code, a.file_name,
                               a.nuts_level, a.year, a.mean_column)
      [] c.op = "get_nuts_names" ->
            get_nuts_names(self, d, a.nuts_level, a.country_code, a.file_name, a.year)
      [] c.op = "plot_crop_landuse" ->
            plot_crop_landuse(self, d, a.crop_name, a.nuts_level, a.year, a.column)
      [] c.op = "get_crop_mean" ->
            get_crop_mean(self, d, a.crop_name, a.nuts_level, a.year, a.column)
      [] c.op = "get_crop_mean_per_district" ->
            get_crop_mean_per_district(self, d, a.crop_name, a.nuts_level, a.year, a.column)

\* what the caller sees of an outcome
Observed(o) ==
    [exc |-> o.exc, value |-> o.value, steps |-> o.steps, path |-> o.path, gdf |-> o.gdf,
     title |-> o.title]

WithMeanColumn(k, mc) ==
    [country_code |-> k.country_code, file_name |-> k.file_name, nuts_level |-> k.nuts_level,
     year |-> k.year, mean_column |-> mc]
WithId(k, id, mc) ==
    [nuts_id |-> id, country_code |-> k.country_code, file_name |-> k.file_name,
     nuts_level |-> k.nuts_level, year |-> k.year, mean_column |-> mc]
WithColumn(k, col) ==
    [crop_name |-> k.crop_name, nuts_level |-> k.nuts_level, year |-> k.year, column |-> col]

\* One action per public method, for the dataset keys K: the whole call, from
\* the path resolution to the return or the exception.  The files are only
\* read, and the handler is left as the method leaves it.
CallMeanColumns(K) ==
    \E k \in K :
        LET o == mean_columns(handler, disk, k.country_code, k.file_name, k.nuts_level, k.year)
        IN  /\ call' = [op |-> "mean_columns", args |-> k]
            /\ result' = Observed(o)
            /\ handler' = o.self
            /\ raised' = (raised \/ o.exc # "none")
            /\ UNCHANGED disk

CallPlotMean(K) ==
    \E k \in K, mc \in MeanColumnArgs :
        LET o == plot_mean(handler, disk, k.country_code, k.file_name, k.nuts_level, k.year, mc)
        IN  /\ call' = [op |-> "plot_mean", args |-> WithMeanColumn(k, mc)]
            /\ result' = Observed(o)
            /\ handler' = o.self
            /\ raised' = (raised \/ o.exc # "none")
            /\ UNCHANGED disk

CallGetDistrictValue(K) ==
    \E k \in K, id \in NutsIds, mc \in MeanColumnArgs :
        LET o == get_district_value(handler, disk, id, k.country_code, k.file_name,
                                    k.nuts_level, k.year, mc)
        IN  /\ call' = [op |-> "get_district_value", args |-> WithId(k, id, mc)]
            /\ result' = Observed(o)
            /\ handler' = o.self
            /\ raised' = (raised \/ o.exc # "none")
            /\ UNCHANGED disk

CallGetNutsNames(K) ==
    \E k \in K :
        LET o == get_nuts_names(handler, disk, k.nuts_level, k.country_code, k.file_name, k.year)
        IN  /\ call' = [op |-> "get_nuts_names", args |-> k]
            /\ result' = Observed(o)
            /\ handler' = o.self
            /\ raised' = (raised \/ o.exc # "none")
            /\ UNCHANGED disk

CallPlotCropLanduse(K) ==
    \E k \in K, col \in ColumnArgs :
        LET o == plot_crop_landuse(handler, disk, k.crop_name, k.nuts_level, k.year, col)
        IN  /\ call' = [op |-> "plot_crop_landuse", args |-> WithColumn(k, col)]
            /\ result' = Observed(o)
            /\ handler' = o.self
            /\ raised' = (raised \/ o.exc # "none")
            /\ UNCHANGED disk

CallGetCropMean(K) ==
    \E k \in K, col \in ColumnArgs :
        LET o == get_crop_mean(handler, disk, k.crop_name, k.nuts_level, k.year, col)
        IN  /\ call' = [op |-> "get_crop_mean", args |-> WithColumn(k, col)]
            /\ result' = Observed(o)
            /\ handler' = o.self
            /\ raised' = (raised \/ o.exc # "none")
            /\ UNCHANGED disk

CallGetCropMeanPerDistrict(K) ==
    \E k \in K, col \in ColumnArgs :
        LET o == get_crop_mean_per_district(handler, disk, k.crop_name, k.nuts_level, k.year, col)
        IN  /\ call' = [op |-> "get_crop_mean_per_district", args |-> WithColumn(k, col)]
            /\ result' = Observed(o)
            /\ handler' = o.self
            /\ raised' = (raised \/ o.exc # "none")
            /\ UNCHANGED disk

Constructed ==
    /\ handler = __init__
    /\ raised = FALSE
    /\ call = [op |-> "__init__", args |-> EmptyDict]
    /\ result = [exc |-> "none", value |-> None, steps |-> <<>>, path |-> "", gdf |-> NoTable,
                 title |-> ""]

\* --- any calls, on any packaged files -----------------------------------
Init ==
    /\ \E E \in SUBSET (NutsFiles \cup CropFiles), tn \in NutsTables, tc \in CropTables :
          /\ Cardinality(E) <= MaxFiles
          /\ disk = [p \in E |-> IF p \in NutsFiles THEN tn ELSE tc]
    /\ Constructed

MeanColumns == CallMeanColumns(NutsKeys)
PlotMean == CallPlotMean(NutsKeys)
GetDistrictValue == CallGetDistrictValue(NutsKeys)
GetNutsNames == CallGetNutsNames(NutsKeys)
PlotCropLanduse == CallPlotCropLanduse(CropKeys)
GetCropMean == CallGetCropMean(CropKeys)
GetCropMeanPerDistrict == CallGetCropMeanPerDistrict(CropKeys)

Next ==
    \/ MeanColumns
    \/ PlotMean
    \/ GetDistrictValue
    \/ GetNutsNames
    \/ PlotCropLanduse
    \/ GetCropMean
    \/ GetCropMeanPerDistrict

Spec == Init /\ [][Next]_vars

\* --- the default boundary dataset, over every column list ---------------
InitColumns ==
    /\ \E t \in ColumnTables : disk = (DefaultNutsShp :> t)
    /\ Constructed

ColumnsMeanColumns == CallMeanColumns({DefaultNutsKey})
ColumnsPlotMean == CallPlotMean({DefaultNutsKey})
ColumnsGetDistrictValue == CallGetDistrictValue({DefaultNutsKey})

NextColumns == ColumnsMeanColumns \/ ColumnsPlotMean \/ ColumnsGetDistrictValue

SpecColumns == InitColumns /\ [][NextColumns]_vars

\* --- the default boundary dataset, over every row list ------------------
InitLookup ==
    /\ \E t \in LookupTables : disk = (DefaultNutsShp :> t)
    /\ Constructed

LookupGetDistrictValue == CallGetDistrictValue({DefaultNutsKey})
LookupGetNutsNames == CallGetNutsNames({DefaultNutsKey})

NextLookup == LookupGetDistrictValue \/ LookupGetNutsNames

SpecLookup == InitLookup /\ [][NextLookup]_vars

\* --- the default crop dataset, over every row list ----------------------
InitGroup ==
    /\ \E t \in GroupTables : disk = (DefaultCropShp :> t)
    /\ Constructed

GroupGetCropMean == CallGetCropMean({DefaultCropKey})
GroupGetCropMeanPerDistrict == CallGetCropMeanPerDistrict({DefaultCropKey})

NextGroup == GroupGetCropMean \/ GroupGetCropMeanPerDistrict

SpecGroup == InitGroup /\ [][NextGroup]_vars

\* ========================================================================
\* Properties
\* ========================================================================
NutsOps == {"mean_columns", "plot_mean", "get_district_value", "get_nuts_names"}
CropOps == {"plot_crop_landuse", "get_crop_mean", "get_crop_mean_per_district"}
Called == call.op \in NutsOps \cup CropOps

\* the crop names of CropNames as they appear in folder names
CropInFolder == ("wheat" :> "wheat") @@ ("winter soft wheat" :> "winter_soft_wheat")

\* the folder of the last call's dataset, written out from its arguments
BoundaryFolder ==
    call.args.country_code \o "_" \o call.args.file_name \o "_NUTS"
        \o ToString(call.args.nuts_level) \o "_" \o ToString(call.args.year)
CropFolder ==
    "DE_landuse_" \o CropInFolder[call.args.crop_name] \o "_NUTS"
        \o ToString(call.args.nuts_level) \o "_" \o ToString(call.args.year)
CropFolderAsGiven ==
    "DE_landuse_" \o call.args.crop_name \o "_NUTS"
        \o ToString(call.args.nuts_level) \o "_" \o ToString(call.args.year)
ShpIn(folder) == "landuse_v1/Data/Yearly/" \o folder \o "/" \o folder \o ".shp"
BackingShp == IF call.op \in NutsOps THEN ShpIn(BoundaryFolder) ELSE ShpIn(CropFolder)
BackingFileExists == Called /\ BackingShp \in DOMAIN disk
Loaded == disk[BackingShp]

\* C1: when the shapefile of the call's dataset key does not exist, every
\* public method raises FileNotFoundError, and the existence check is the only
\* step reached: no column check, id lookup or rendering step precedes it,
\* whatever the other arguments are.
THM_C1 ==
    (Called /\ ~BackingFileExists) =>
        /\ result.exc = "FileNotFoundError"
        /\ result.steps = <<"exists">>

\* a lookup of an unknown id in an absent column, on a dataset that is missing
WIT_C1 ==
    /\ call.op = "get_district_value"
    /\ call.args.nuts_id = "DE9"
    /\ call.args.mean_column = Some("rain_mean")
    /\ ~BackingFileExists
    /\ result.exc = "FileNotFoundError"

\* C2 (as amended): the path read is Data/Yearly/<folder>/<folder>.shp under
\* the package root, where <folder> is {country}_{indicator}_NUTS{level}_{year}
\* for a boundary dataset and DE_landuse_{crop}_NUTS{level}_{year} for a crop
\* dataset, {crop} being the crop name with every space replaced by an
\* underscore and DE a fixed prefix; the path depends on the key alone.
THM_C2 ==
    Called =>
        result.path = IF call.op \in NutsOps THEN ShpIn(BoundaryFolder) ELSE ShpIn(CropFolder)

\* a crop name holding a space, read from the folder spelt with an underscore
WIT_C2 ==
    /\ call.op = "get_crop_mean"
    /\ call.args.crop_name = "winter soft wheat"
    /\ result.exc = "none"
    /\ result.path =
          "landuse_v1/Data/Yearly/DE_landuse_winter_soft_wheat_NUTS3_2022/DE_landuse_winter_soft_wheat_NUTS3_2022.shp"

\* C2 as stated: the crop name enters the folder name as given.
CEX_C2 ==
    Called =>
        result.path =
            IF call.op \in NutsOps THEN ShpIn(BoundaryFolder) ELSE ShpIn(CropFolderAsGiven)

Min(S) == CHOOSE x \in S : \A y \in S : x <= y
Columns == Range(Loaded.columns)

\* the rows of the loaded table whose NUTS_ID is the id asked for
Matches == {i \in DOMAIN Loaded.rows : Loaded.rows[i]["NUTS_ID"] = Some(call.args.nuts_id)}

\* a column name is some prefix followed by _mean
HasMeanSuffix(c) == \E k \in 0..Len(c) : c = SubSeq(c, 1, k) \o "_mean"
MeanPositions == {i \in DOMAIN Loaded.columns : HasMeanSuffix(Loaded.columns[i])}
FirstMeanColumn == Loaded.columns[Min(MeanPositions)]

\* the column get_district_value reads: the one passed, or the default
LookupColumn ==
    IF call.args.mean_column = None THEN FirstMeanColumn ELSE call.args.mean_column[1]

\* C3: get_district_value, for a column of the loaded table, raises KeyError
\* when no row has the NUTS_ID asked for, and otherwise returns the column's
\* value in the first matching row in load order, duplicates or not.
THM_C3 ==
    (/\ call.op = "get_district_value"
     /\ BackingFileExists
     /\ "NUTS_ID" \in Columns
     /\ call.args.mean_column = None => MeanPositions # {}
     /\ LookupColumn \in Columns) =>
        IF Matches = {}
        THEN result.exc = "KeyError"
        ELSE /\ result.exc = "none"
             /\ result.value = Loaded.rows[Min(Matches)][LookupColumn]

\* a key held by two rows with different values: the first row's is returned
WIT_C3 ==
    /\ call.op = "get_district_value"
    /\ BackingFileExists
    /\ call.args.mean_column = Some("v_mean")
    /\ Cardinality(Matches) >= 2
    /\ result.exc = "none"
    /\ result.value = Loaded.rows[Min(Matches)]["v_mean"]
    /\ \E j \in Matches : Loaded.rows[j]["v_mean"] # result.value

\* C5: with mean_column None, get_district_value and plot_mean fail with
\* ValueError exactly when the table has no *_mean column, before any id
\* lookup or rendering; otherwise they use the first *_mean column in column
\* order (plot_mean's title names it, get_district_value returns its cell).
THM_C5 ==
    (/\ call.op \in {"get_district_value", "plot_mean"}
     /\ BackingFileExists
     /\ call.args.mean_column = None) =>
        IF MeanPositions = {}
        THEN /\ result.exc = "ValueError"
             /\ "id_lookup" \notin Range(result.steps)
             /\ "subplots" \notin Range(result.steps)
        ELSE /\ result.exc # "ValueError"
             /\ call.op = "plot_mean" =>
                   /\ result.exc = "none"
                   /\ result.title =
                         call.args.country_code \o " NUTS" \o ToString(call.args.nuts_level)
                             \o " - " \o FirstMeanColumn \o " ("
                             \o ToString(call.args.year) \o ")"
             /\ (call.op = "get_district_value" /\ result.exc = "none") =>
                   result.value = Loaded.rows[Min(Matches)][FirstMeanColumn]

\* an unknown id on a table with columns but no *_mean column: ValueError
WIT_C5 ==
    /\ call.op = "get_district_value"
    /\ BackingFileExists
    /\ call.args.mean_column = None
    /\ call.args.nuts_id = "DE9"
    /\ "NUTS_ID" \in Columns
    /\ "v_means" \in Columns
    /\ MeanPositions = {}
    /\ result.exc = "ValueError"

\* the default column is the first of two *_mean columns, not the first by name
WIT_C5_default ==
    /\ call.op = "get_district_value"
    /\ BackingFileExists
    /\ call.args.mean_column = None
    /\ Loaded.columns = <<"NUTS_ID", "v_mean", "t_mean">>
    /\ result.value = Some("cell of v_mean")

\* C6: mean_columns returns the column names ending in _mean, each once, in
\* the table's column order, and the empty list, not an error, when there is
\* none.
THM_C6 ==
    (call.op = "mean_columns" /\ BackingFileExists) =>
        /\ result.exc = "none"
        /\ Range(result.value) = {Loaded.columns[i] : i \in MeanPositions}
        /\ Len(result.value) = Cardinality(MeanPositions)
        /\ \A i, j \in DOMAIN result.value :
              i < j => \E m, n \in MeanPositions :
                          /\ m < n
                          /\ Loaded.columns[m] = result.value[i]
                          /\ Loaded.columns[n] = result.value[j]

\* two *_mean columns out of alphabetical order, between columns that merely
\* contain _mean
WIT_C6 ==
    /\ call.op = "mean_columns"
    /\ Loaded.columns = <<"v_mean", "v_mean_sd", "t_mean">>
    /\ result.value = <<"v_mean", "t_mean">>

\* no *_mean column: the empty list
WIT_C6_empty ==
    /\ call.op = "mean_columns"
    /\ Loaded.columns = <<"mean", "v_means">>
    /\ result.exc = "none"
    /\ result.value = <<>>

\* the labels of the loaded table, and the rows of a label that hold a value
Labels ==
    {Loaded.rows[i]["NUTS_NAME"][1] :
        i \in {j \in DOMAIN Loaded.rows : Loaded.rows[j]["NUTS_NAME"] # None}}
Valued(label) ==
    {i \in DOMAIN Loaded.rows :
        /\ Loaded.rows[i]["NUTS_NAME"] = Some(label)
        /\ Loaded.rows[i][call.args.column] # NaN}
RECURSIVE SumOver(_)
SumOver(S) ==
    IF S = {} THEN 0
    ELSE LET i == CHOOSE x \in S : TRUE
         IN  Loaded.rows[i][call.args.column][1] + SumOver(S \ {i})
\* q is the arithmetic mean of the values in rows S (NaN when there is none)
IsMeanOf(q, S) ==
    IF S = {} THEN q = NaN
    ELSE /\ Len(q) = 2
         /\ q[2] > 0
         /\ q[1] * Cardinality(S) = q[2] * SumOver(S)

\* C7: on a table with both columns, get_crop_mean_per_district returns a
\* mapping whose keys are exactly the distinct NUTS_NAME labels of the table
\* (a row without a label has none) and whose value for a label is the
\* arithmetic mean of the non-missing values of the column over the rows with
\* that label (NaN when all are missing), whatever the row order.
THM_C7 ==
    (/\ call.op = "get_crop_mean_per_district"
     /\ BackingFileExists
     /\ call.args.column \in Columns
     /\ "NUTS_NAME" \in Columns) =>
        /\ result.exc = "none"
        /\ DOMAIN result.value = Labels
        /\ \A label \in Labels : IsMeanOf(result.value[label], Valued(label))

\* rows [(A,10),(A,20),(B,5)] yield {A: 15, B: 5}
WIT_C7 ==
    /\ call.op = "get_crop_mean_per_district"
    /\ Loaded.rows = << [NUTS_NAME |-> Some("A"), v_mean |-> Some(10)],
                        [NUTS_NAME |-> Some("A"), v_mean |-> Some(20)],
                        [NUTS_NAME |-> Some("B"), v_mean |-> Some(5)] >>
    /\ result.value = ("A" :> <<15, 1>>) @@ ("B" :> <<5, 1>>)

\* the same rows in another order, one value missing: the same means
WIT_C7_reordered ==
    /\ call.op = "get_crop_mean_per_district"
    /\ Loaded.rows = << [NUTS_NAME |-> Some("B"), v_mean |-> Some(5)],
                        [NUTS_NAME |-> Some("A"), v_mean |-> NaN],
                        [NUTS_NAME |-> Some("A"), v_mean |-> Some(20)] >>
    /\ result.value = ("A" :> <<20, 1>>) @@ ("B" :> <<5, 1>>)

\* C4 as stated: get_crop_mean_per_district raises ValueError when the value
\* column, the NUTS_NAME column, or both are absent from the loaded table.
CEX_C4 ==
    (/\ call.op = "get_crop_mean_per_district"
     /\ BackingFileExists
     /\ (call.args.column \notin Columns \/ "NUTS_NAME" \notin Columns)) =>
        result.exc = "ValueError"

\* C8 as stated: plot_crop_landuse with an absent column, and plot_mean with an
\* absent explicit mean_column, raise ValueError before the rendering surface
\* is invoked.
CEX_C8 ==
    (/\ BackingFileExists
     /\ \/ call.op = "plot_crop_landuse" /\ call.args.column \notin Columns
        \/ /\ call.op = "plot_mean"
           /\ call.args.mean_column # None
           /\ call.args.mean_column[1] \notin Columns) =>
        /\ result.exc = "ValueError"
        /\ "subplots" \notin Range(result.steps)

\* C9 as stated: get_district_value with an explicit mean_column that is absent
\* from a table keyed by NUTS_ID, and get_crop_mean with an absent column,
\* raise ValueError.
CEX_C9 ==
    (/\ BackingFileExists
     /\ \/ call.op = "get_crop_mean" /\ call.args.column \notin Columns
        \/ /\ call.op = "get_district_value"
           /\ "NUTS_ID" \in Columns
           /\ call.args.mean_column # None
           /\ call.args.mean_column[1] \notin Columns) =>
        result.exc = "ValueError"

\* C10: no call changes the packaged files or the handler, which holds no
\* attribute; so every call, after any calls before it, returns what the same
\* call returns on a newly constructed handler over the same files, the table
\* it loads is the packaged one, and a call repeated returns the same again.
THM_C10 ==
    [][/\ disk' = disk
       /\ handler' = handler
       /\ handler' = __init__
       /\ result' = Observed(Dispatch(__init__, disk, call'))
       /\ result'.exc # "FileNotFoundError" => result'.gdf = disk[result'.path]
       /\ call' = call => result' = result]_vars

\* a dataset loaded after an earlier call has raised: the packaged table
WIT_C10 ==
    /\ raised
    /\ call.op = "get_nuts_names"
    /\ result.exc = "none"
    /\ result.gdf = Loaded
    /\ result.value = [i \in DOMAIN Loaded.rows |-> Loaded.rows[i]["NUTS_NAME"]]
    /\ handler = __init__

====
